---- MODULE Spec2Model ----
(***************************************************************************)
(* Progress roll-up and freeze cascade of the OKR service.                 *)
(*                                                                         *)
(* The persistent state is five collections (team OKRs, their stats,       *)
(* corporate OKRs, their stats, check-ins).  Every service method is one   *)
(* action; the save hooks of the models are operators that the service     *)
(* operators call in the order the ODM runs them (pre-save hooks, write    *)
(* of the changed paths, post-save hooks).                                 *)
(*                                                                         *)
(* Conventions                                                             *)
(*  - Indexes of key results are 0-based as in the source; the sequences   *)
(*    of the model are 1-based, so keyResults[i + 1] is the source's       *)
(*    keyResults[i].                                                       *)
(*  - A document holds exactly the values the code assigns to it.  The     *)
(*    declarative field validators of the schemas (required, min, max)     *)
(*    are not part of the model; the hooks and the services are.           *)
(*  - save() of a loaded document writes the paths whose value differs     *)
(*    from the loaded one (the change tracking the hooks query with        *)
(*    isModified); save() of a new document inserts it.                    *)
(*  - progressHistory is append-only and the code reads only its length,   *)
(*    its first date and its last entry; the model keeps these three.      *)
(*  - Time is counted in days.                                             *)
(***************************************************************************)
EXTENDS Integers, Sequences, FiniteSets, TLC

VARIABLES okrs, okrStats, corps, corpStats, checkIns, now, ops, last, calls

vars == <<okrs, okrStats, corps, corpStats, checkIns, now, ops, last, calls>>

----------------------------------------------------------------------------
(* Bounds of the model *)

MaxOKR == 2

MaxCorp == 1

MaxKR == 2

MaxCorpKR == 2

MaxBatch == 2

MaxTime == 1

\* requests served in one run
MaxOps == 4

\* requests served on a database that already holds linked team OKRs
LinkedOps == 2

Teams == {1, 2}

Users == {1}

----------------------------------------------------------------------------
(* JavaScript values that are not numbers *)

NaN == -1000

Undef == -2000

IsNum(x) == x # NaN /\ x # Undef

Min2(a, b) == IF a < b THEN a ELSE b

Max2(a, b) == IF a > b THEN a ELSE b

\* Math.round(num / den) of two integers: the nearest integer, halves rounded
\* up. One division is rounded correctly and a quotient that ends in a half
\* is a double, so this is the result of exact arithmetic.
MathRound(num, den) ==
    LET n == IF den < 0 THEN 0 - num ELSE num
        d == IF den < 0 THEN 0 - den ELSE den
    IN  (2 * n + d) \div (2 * d)

\* A positive JavaScript number (an IEEE 754 double) is held as [a, b, c, e]:
\* its 53 significant bits are a * 2^36 + b * 2^18 + c with 2^16 <= a < 2^17
\* and b, c < 2^18, and its value is that integer times 2^(e - 52).
Limb == 2 ^ 18

RECURSIVE Scale(_, _, _)
\* n / d brought into [1, 2): the scaled pair and the exponent taken out
Scale(n, d, e) ==
    IF n >= 2 * d THEN Scale(n, 2 * d, e + 1)
    ELSE IF n < d THEN Scale(2 * n, d, e - 1)
    ELSE [n |-> n, d |-> d, e |-> e]

\* round to nearest, ties to even: the 53 bits, the bit after them and
\* whether anything that is not 0 follows that bit
RoundToDouble(a, b, c, e, guard, sticky) ==
    IF ~(guard = 1 /\ (sticky \/ c % 2 = 1)) THEN [a |-> a, b |-> b, c |-> c, e |-> e]
    ELSE IF c + 1 < Limb THEN [a |-> a, b |-> b, c |-> c + 1, e |-> e]
    ELSE IF b + 1 < Limb THEN [a |-> a, b |-> b + 1, c |-> 0, e |-> e]
    ELSE IF a + 1 < 2 ^ 17 THEN [a |-> a + 1, b |-> 0, c |-> 0, e |-> e]
    ELSE [a |-> 2 ^ 16, b |-> 0, c |-> 0, e |-> e + 1]

\* n / d of two positive integers below 2^12 as a JavaScript number: three
\* steps of long division give the limbs, the last remainder the rounding
DivDouble(n, d) ==
    LET Third(s, a, b, r2) ==
            RoundToDouble(a, b, (r2 * Limb) \div s.d, s.e,
                          (2 * ((r2 * Limb) % s.d)) \div s.d,
                          (2 * ((r2 * Limb) % s.d)) % s.d # 0)
        Second(s, a, r1) == Third(s, a, (r1 * Limb) \div s.d, (r1 * Limb) % s.d)
        First(s) == Second(s, (s.n * 2 ^ 16) \div s.d, (s.n * 2 ^ 16) % s.d)
    IN  First(Scale(n, d, 0))

\* x * 100 of a positive JavaScript number: the limbs times 100 with their
\* carries, then the 6 or 7 bits too many shifted out and rounded
TimesHundred(x) ==
    LET Shift(a0, b0, c0, k) ==
            RoundToDouble(a0 \div (2 ^ k),
                          b0 \div (2 ^ k) + (a0 % (2 ^ k)) * (2 ^ (18 - k)),
                          c0 \div (2 ^ k) + (b0 % (2 ^ k)) * (2 ^ (18 - k)),
                          x.e + k,
                          (c0 \div (2 ^ (k - 1))) % 2,
                          c0 % (2 ^ (k - 1)) # 0)
        Carry(a0, b0, c0) == Shift(a0, b0, c0, IF a0 >= 2 ^ 23 THEN 7 ELSE 6)
        Middle(b1, c0) == Carry(x.a * 100 + b1 \div Limb, b1 % Limb, c0)
    IN  Middle(x.b * 100 + (x.c * 100) \div Limb, (x.c * 100) % Limb)

\* floor(m / 2^s) of the 53 bits m of x, for s >= 18
FloorShift(x, s) ==
    IF s >= 36 THEN x.a \div (2 ^ (s - 36))
    ELSE x.a * (2 ^ (36 - s)) + x.b \div (2 ^ (s - 18))

\* the 53 bits m of x are not a multiple of 2^s
LowBits(x, s) ==
    IF s >= 36 THEN (x.a % (2 ^ (s - 36)) # 0) \/ x.b # 0 \/ x.c # 0
    ELSE IF s >= 18 THEN (x.b % (2 ^ (s - 18)) # 0) \/ x.c # 0
    ELSE x.c % (2 ^ s) # 0

\* Math.round(x) for a positive x below 2^30 (negative FALSE) and
\* Math.round(-x) (negative TRUE): the nearest integer, a half goes towards
\* plus infinity
MathRoundDouble(x, negative) ==
    LET Nearest(whole, half, low) ==
            IF negative
            THEN 0 - (whole + (IF half = 1 /\ low THEN 1 ELSE 0))
            ELSE whole + half
        Shifted(s) == Nearest(FloorShift(x, s), FloorShift(x, s - 1) % 2, LowBits(x, s - 1))
    IN  Shifted(52 - x.e)

\* Math.round((n / d) * 100) for integers n and d, d not 0: the quotient and
\* the product are each rounded to a double before Math.round sees them
RoundPercent(n, d) ==
    IF n = 0 THEN 0
    ELSE LET an == IF n < 0 THEN 0 - n ELSE n
             ad == IF d < 0 THEN 0 - d ELSE d
         IN  MathRoundDouble(TimesHundred(DivDouble(an, ad)), (n < 0) # (d < 0))

\* a + b of JavaScript numbers
JsAdd(a, b) == IF IsNum(a) /\ IsNum(b) THEN a + b ELSE NaN

\* x || 0
OrZero(x) == IF IsNum(x) THEN x ELSE 0

\* Math.min(Math.max(Number(x), 0), 100)
Normalize(x) == IF x = NaN \/ x = Undef THEN NaN ELSE Min2(Max2(x, 0), 100)

RECURSIVE SumSeq(_)
SumSeq(s) == IF Len(s) = 0 THEN 0 ELSE JsAdd(s[1], SumSeq(Tail(s)))

SetToSeq(S) ==
    CHOOSE s \in [1..Cardinality(S) -> S] : \A x \in S : \E i \in DOMAIN s : s[i] = x

----------------------------------------------------------------------------
(* Metric calculator and aggregator *)

\* a variant that keeps the progress the key result was given
KRProgressSupplied(kr) == kr.progress

\* the progress the OKR pre-save hook stores for one key result
KRProgress(kr) ==
    LET span == kr.targetValue - kr.startValue
        raw  == IF kr.metricType = "percentage"
                THEN IF span = 0 THEN 100
                     ELSE IF IsNum(kr.actualValue)
                          THEN RoundPercent(kr.actualValue - kr.startValue, span)
                          ELSE NaN
                ELSE IF span = 0 THEN 100
                     ELSE IF IsNum(kr.actualValue)
                          THEN RoundPercent(kr.actualValue - kr.startValue, span)
                          ELSE NaN
    IN  IF raw = NaN THEN NaN ELSE Min2(100, Max2(0, raw))

\* a variant that forgets to divide the sum by the number of key results
TeamProgressSum(krs) ==
    LET total == SumSeq([i \in 1..Len(krs) |-> krs[i].progress])
    IN  IF total = NaN THEN NaN ELSE Min2(100, total)

\* Math.round(total / length) over the key results' progress, 0 when empty
TeamProgress(krs) ==
    LET total == SumSeq([i \in 1..Len(krs) |-> krs[i].progress])
    IN  IF Len(krs) = 0 THEN 0
        ELSE IF total = NaN THEN NaN ELSE MathRound(total, Len(krs))

\* the classification both stats writers apply to a progress value
DaysUntil(deadline, t) == deadline - t

AtRiskDays == 5

----------------------------------------------------------------------------
(* Append-only history *)

EmptyHist == [len |-> 0, first |-> Undef, last |-> Undef]

HistPush(h, e) ==
    [len |-> h.len + 1, first |-> IF h.len = 0 THEN e.date ELSE h.first, last |-> e]

ProgressOf(krs) == [i \in 1..Len(krs) |-> krs[i].progress]

----------------------------------------------------------------------------
(* Corporate stats: the pre-save hook of CorporateOKRStats *)

\* status and completion date for a progress value and a deadline
CorpClassify(st, progress, deadline, t) ==
    IF progress = 100
    THEN [st EXCEPT !.status = "completed", !.completedAt = t]
    ELSE IF progress >= 75
    THEN [st EXCEPT !.status = "on_track"]
    ELSE IF progress < 50 /\ deadline # Undef
    THEN IF DaysUntil(deadline, t) <= AtRiskDays
         THEN [st EXCEPT !.status = "at_risk"]
         ELSE [st EXCEPT !.status = "on_track"]
    ELSE [st EXCEPT !.status = "on_track"]

\* CorporateOKRStats.pre('save'): st is the document being saved, modified
\* tells whether its progress path is modified
CorpStatsPreSave(st, modified, t) ==
    IF modified /\ st.progress # Undef
    THEN LET c == CorpClassify(st, st.progress, st.deadline, t)
         IN  [c EXCEPT !.progressHistory =
                 HistPush(@, [date |-> t, value |-> st.progress,
                              keyResultsProgress |-> ProgressOf(st.keyResultsStats)])]
    ELSE st

CorpKRStats(krs) ==
    [i \in 1..Len(krs) |->
        [progress |-> krs[i].progress, actualValue |-> krs[i].actualValue,
         teams |-> krs[i].teams]]

----------------------------------------------------------------------------
(* Rollup coordinator *)

Linked(D, corpId, krIndex) ==
    {o \in DOMAIN D.okrs :
        D.okrs[o].parentOKR = corpId /\ D.okrs[o].parentKRIndex = krIndex}

LinkedTo(D, corpId) == {o \in DOMAIN D.okrs : D.okrs[o].parentOKR = corpId}

\* a variant that takes the mean of the first linked team OKR alone
AverageProgressFirst(D, S) ==
    LET ids == SubSeq(SetToSeq(S), 1, 1)
        normalized == [i \in 1..Len(ids) |-> Normalize(OrZero(D.okrs[ids[i]].progress))]
    IN  MathRound(SumSeq(normalized), Len(normalized))

\* the mean the rollup writes for a set of linked team OKRs
AverageProgress(D, S) ==
    LET ids == SetToSeq(S)
        normalized == [i \in 1..Len(ids) |-> Normalize(OrZero(D.okrs[ids[i]].progress))]
    IN  MathRound(SumSeq(normalized), Len(normalized))

\* the overall progress the rollup writes for a corporate OKR
CorpOverall(krs) ==
    MathRound(SumSeq([i \in 1..Len(krs) |->
                  LET n == Normalize(OrZero(krs[i].progress))
                  IN  IF n = NaN THEN 0 ELSE n]), Len(krs))

\* the stats update at the end of the rollup; corp is the document read
\* after the key result was written
RecalcStats(D, corpId, corp, overall, t) ==
    IF corpId \notin DOMAIN D.corpStats THEN D
    ELSE LET st0 == D.corpStats[corpId]
             st1 == [st0 EXCEPT !.progress = overall,
                                !.isFrozen = corp.isFrozen,
                                !.keyResultsStats = CorpKRStats(corp.keyResults),
                                !.progressHistory =
                                    HistPush(@, [date |-> t, value |-> overall,
                                                 keyResultsProgress |-> ProgressOf(corp.keyResults)])]
             st2 == IF overall = 100
                    THEN [st1 EXCEPT !.status = "completed", !.completedAt = t]
                    ELSE IF overall >= 75
                    THEN [st1 EXCEPT !.status = "on_track"]
                    ELSE IF overall < 50 /\ corp.deadline # Undef
                    THEN IF DaysUntil(corp.deadline, t) <= AtRiskDays
                         THEN [st1 EXCEPT !.status = "at_risk"]
                         ELSE [st1 EXCEPT !.status = "on_track"]
                    ELSE [st1 EXCEPT !.status = "on_track"]
             st3 == CorpStatsPreSave(st2, st2.progress # st0.progress, t)
         IN  [D EXCEPT !.corpStats[corpId] = st3]

\* a variant that computes the overall progress before the key result is
\* written
RecalcWriteStaleOverall(D, krIndex, corpId, avg, t) ==
    LET D1 == IF corpId \in DOMAIN D.corps /\ krIndex + 1 <= Len(D.corps[corpId].keyResults)
              THEN [D EXCEPT !.corps[corpId].keyResults[krIndex + 1].progress = avg]
              ELSE D
    IN  IF corpId \notin DOMAIN D1.corps \/ Len(D1.corps[corpId].keyResults) = 0
        THEN D1
        ELSE LET corp == D1.corps[corpId]
                 overall == CorpOverall(D.corps[corpId].keyResults)
                 D2 == [D1 EXCEPT !.corps[corpId].progress = overall]
             IN  RecalcStats(D2, corpId, corp, overall, t)

\* the write half of the rollup: avg is the mean computed from the team OKRs
RecalcWrite(D, krIndex, corpId, avg, t) ==
    LET D1 == IF corpId \in DOMAIN D.corps /\ krIndex + 1 <= Len(D.corps[corpId].keyResults)
              THEN [D EXCEPT !.corps[corpId].keyResults[krIndex + 1].progress = avg]
              ELSE D
    IN  IF corpId \notin DOMAIN D1.corps \/ Len(D1.corps[corpId].keyResults) = 0
        THEN D1
        ELSE LET corp == D1.corps[corpId]
                 overall == CorpOverall(corp.keyResults)
                 D2 == [D1 EXCEPT !.corps[corpId].progress = overall]
             IN  RecalcStats(D2, corpId, corp, overall, t)

\* a variant that averages the mean of the team OKRs with the progress the
\* key result holds
recalculateKRProgressRunning(D, krIndex, corpId, t) ==
    IF Linked(D, corpId, krIndex) = {}
    THEN D
    ELSE RecalcWrite(D, krIndex, corpId,
                     MathRound(AverageProgress(D, Linked(D, corpId, krIndex))
                                   + D.corps[corpId].keyResults[krIndex + 1].progress, 2), t)

recalculateKRProgress(D, krIndex, corpId, t) ==
    IF Linked(D, corpId, krIndex) = {}
    THEN D
    ELSE RecalcWrite(D, krIndex, corpId, AverageProgress(D, Linked(D, corpId, krIndex)), t)

\* a call of recalculateKRProgress with the outcome its caller sees: the
\* function has no throw statement and resolves for every argument
recalculateKRProgressCall(D, krIndex, corpId, t) ==
    [db |-> recalculateKRProgress(D, krIndex, corpId, t), result |-> "ok"]

----------------------------------------------------------------------------
(* Documents and change tracking *)

\* the paths of one key result that differ from the loaded document
MergeKR(cur, doc, loaded) ==
    [f \in DOMAIN cur |-> IF doc[f] # loaded[f] THEN doc[f] ELSE cur[f]]

\* key results after a save: changed paths of the loaded elements, then the
\* elements the document pushed
MergeKRs(cur, doc, loaded) ==
    [i \in 1..Len(cur) |->
        IF i <= Len(loaded) /\ i <= Len(doc) THEN MergeKR(cur[i], doc[i], loaded[i]) ELSE cur[i]]
    \o SubSeq(doc, Len(loaded) + 1, Len(doc))

\* the stored document after save() of doc, which was loaded as loaded
MergeDoc(cur, doc, loaded) ==
    [f \in DOMAIN cur |->
        IF f = "keyResults" THEN MergeKRs(cur[f], doc[f], loaded[f])
        ELSE IF doc[f] # loaded[f] THEN doc[f] ELSE cur[f]]

----------------------------------------------------------------------------
(* Team OKR: the pre-save hook and save() *)

RecalcKRs(krs) == [i \in 1..Len(krs) |-> [krs[i] EXCEPT !.progress = KRProgress(krs[i])]]

\* OKRSchema.pre('save'); the result is the database and the document
OKRPreSave(D, id, doc, loaded, isNew, t) ==
    LET krs  == RecalcKRs(doc.keyResults)
        doc1 == [doc EXCEPT !.keyResults = krs, !.progress = TeamProgress(krs)]
        modified == \/ isNew
                    \/ doc1.isFrozen # loaded.isFrozen
                    \/ doc1.parentOKR # loaded.parentOKR
                    \/ doc1.parentKRIndex # loaded.parentKRIndex
        \* the stats mirror of the freeze flag and the parent link
        SyncStats(D1) ==
            IF modified /\ id \in DOMAIN D1.okrStats
            THEN [D1 EXCEPT !.okrStats[id].isFrozen = doc1.isFrozen,
                            !.okrStats[id].parentOKR = doc1.parentOKR,
                            !.okrStats[id].parentKRIndex = doc1.parentKRIndex]
            ELSE D1
    IN  [db  |-> SyncStats(IF doc1.parentOKR # Undef /\ doc1.parentKRIndex # Undef
                           THEN recalculateKRProgress(D, doc1.parentKRIndex, doc1.parentOKR, t)
                           ELSE D),
         doc |-> doc1]

\* okr.save(): pre-save hook, then the write; the result is the database
\* and the document as the caller sees it afterwards
OKRSave(D, id, doc, loaded, isNew, t) ==
    LET Write(pre) ==
            [db  |-> IF isNew THEN [pre.db EXCEPT !.okrs = @ @@ (id :> pre.doc)]
                     ELSE IF id \in DOMAIN pre.db.okrs
                     THEN [pre.db EXCEPT !.okrs[id] = MergeDoc(@, pre.doc, loaded)]
                     ELSE pre.db,
             doc |-> pre.doc]
    IN  Write(OKRPreSave(D, id, doc, loaded, isNew, t))

TeamKRStats(krs) ==
    [i \in 1..Len(krs) |-> [progress |-> krs[i].progress, actualValue |-> krs[i].actualValue]]

----------------------------------------------------------------------------
(* OKRService *)

\* a key result as createOKR and addKeyResult build it from the request
NewKR(inp, progress) ==
    [metricType |-> inp.metricType, startValue |-> inp.startValue,
     targetValue |-> inp.targetValue, actualValue |-> inp.startValue,
     progress |-> progress]

\* OKRService.createOKR as the route calls it (no parent link)
createOKR(D, id, team, krInputs, isFrozen, deadline, t) ==
    LET doc == [team |-> team, isFrozen |-> isFrozen, parentOKR |-> Undef,
                parentKRIndex |-> Undef, deadline |-> deadline,
                keyResults |-> [i \in 1..Len(krInputs) |-> NewKR(krInputs[i], 0)],
                progress |-> 0]
        st(okr) ==
               [progress |-> okr.progress,
                keyResultsStats |-> TeamKRStats(okr.keyResults),
                progressHistory |-> HistPush(EmptyHist,
                    [date |-> t, value |-> okr.progress,
                     keyResultsProgress |-> ProgressOf(okr.keyResults)]),
                totalCheckIns |-> 0, lastCheckIn |-> Undef,
                checkInFrequency |-> Undef, uniqueContributors |-> {},
                status |-> "on_track", isFrozen |-> okr.isFrozen,
                completedAt |-> Undef, deadline |-> okr.deadline,
                parentOKR |-> Undef, parentKRIndex |-> Undef]
        CreateStats(sv) == [sv.db EXCEPT !.okrStats = @ @@ (id :> st(sv.doc))]
    IN  CreateStats(OKRSave(D, id, doc, doc, TRUE, t))

\* OKRService.addKeyResult
addKeyResult(D, id, krInput, t) ==
    IF id \notin DOMAIN D.okrs THEN [db |-> D, result |-> "NotFound"]
    ELSE LET okr == D.okrs[id]
             doc == [okr EXCEPT !.keyResults = Append(@, NewKR(krInput, 0))]
         IN  [db |-> OKRSave(D, id, doc, okr, FALSE, t).db, result |-> "ok"]

\* a variant that also sets the flag of the corporate OKR the team OKR is
\* linked to
updateOKRFreezeStatusUpward(D, id, isFrozen, t) ==
    IF id \notin DOMAIN D.okrs THEN [db |-> D, result |-> "NotFound"]
    ELSE LET okr == D.okrs[id]
             doc == [okr EXCEPT !.isFrozen = isFrozen]
             Up(D1) == IF okr.parentOKR \in DOMAIN D1.corps
                       THEN [D1 EXCEPT !.corps[okr.parentOKR].isFrozen = isFrozen]
                       ELSE D1
         IN  [db |-> Up(OKRSave(D, id, doc, okr, FALSE, t).db), result |-> "ok"]

\* OKRService.updateOKRFreezeStatus
updateOKRFreezeStatus(D, id, isFrozen, t) ==
    IF id \notin DOMAIN D.okrs THEN [db |-> D, result |-> "NotFound"]
    ELSE LET okr == D.okrs[id]
             doc == [okr EXCEPT !.isFrozen = isFrozen]
         IN  [db |-> OKRSave(D, id, doc, okr, FALSE, t).db, result |-> "ok"]

----------------------------------------------------------------------------
(* Corporate OKR: the save hooks and save() *)

RECURSIVE RecalcAll(_, _, _, _, _)
\* for (i = from; i < n; i++) await recalculateKRProgress(i, id)
RecalcAll(D, id, from, n, t) ==
    IF from >= n THEN D
    ELSE RecalcAll(recalculateKRProgress(D, from, id, t), id, from + 1, n, t)

\* a variant that reaches only the team OKRs linked to the first key result
FreezeLinkedFirstKR(D, id, isFrozen) ==
    [D EXCEPT !.okrs = [o \in DOMAIN D.okrs |->
        IF D.okrs[o].parentOKR = id /\ D.okrs[o].parentKRIndex = 0
        THEN [D.okrs[o] EXCEPT !.isFrozen = isFrozen]
        ELSE D.okrs[o]]]

\* OKR.updateMany({ parentOKR: id }, { $set: { isFrozen } })
FreezeLinked(D, id, isFrozen) ==
    [D EXCEPT !.okrs = [o \in DOMAIN D.okrs |->
        IF D.okrs[o].parentOKR = id THEN [D.okrs[o] EXCEPT !.isFrozen = isFrozen]
        ELSE D.okrs[o]]]

\* first CorporateOKRSchema.pre('save'): rollup of every key result, then the
\* overall progress from the document in memory
CorpPreSaveProgress(D, id, doc, t) ==
    IF Len(doc.keyResults) > 0
    THEN [db  |-> RecalcAll(D, id, 0, Len(doc.keyResults), t),
          doc |-> [doc EXCEPT !.progress = CorpOverall(doc.keyResults)]]
    ELSE [db |-> D, doc |-> [doc EXCEPT !.progress = 0]]

\* second CorporateOKRSchema.pre('save'): freeze cascade
CorpPreSaveFreeze(D, id, doc, loaded, isNew) ==
    IF isNew \/ doc.isFrozen # loaded.isFrozen
    THEN LET D1 == IF id \in DOMAIN D.corpStats
                   THEN [D EXCEPT !.corpStats[id].isFrozen = doc.isFrozen]
                   ELSE D
         IN  FreezeLinked(D1, id, doc.isFrozen)
    ELSE D

InvolvedTeams(krs) == UNION {krs[i].teams : i \in 1..Len(krs)}

\* CorporateOKRSchema.post('save'); change tracking is reset once the
\* document is written, so isModified() is false for every path here
CorpPostSave(D, id, doc, t) ==
    LET teamOKRs == LinkedTo(D, id)
        frozen   == {o \in teamOKRs : D.okrs[o].isFrozen}
    IN  IF id \notin DOMAIN D.corpStats
        THEN LET st == [progress |-> doc.progress,
                        keyResultsStats |-> CorpKRStats(doc.keyResults),
                        progressHistory |-> EmptyHist,
                        totalTeamOKRs |-> Cardinality(teamOKRs),
                        activeTeamOKRs |-> Cardinality(teamOKRs \ frozen),
                        frozenTeamOKRs |-> Cardinality(frozen),
                        involvedTeams |-> InvolvedTeams(doc.keyResults),
                        status |-> "on_track", isFrozen |-> doc.isFrozen,
                        completedAt |-> Undef, deadline |-> doc.deadline]
             IN  [D EXCEPT !.corpStats = @ @@ (id :> CorpStatsPreSave(st, TRUE, t))]
        ELSE [D EXCEPT !.corpStats[id].deadline = doc.deadline,
                       !.corpStats[id].totalTeamOKRs = Cardinality(teamOKRs),
                       !.corpStats[id].activeTeamOKRs = Cardinality(teamOKRs \ frozen),
                       !.corpStats[id].frozenTeamOKRs = Cardinality(frozen),
                       !.corpStats[id].involvedTeams = InvolvedTeams(doc.keyResults)]

\* corporateOKR.save()
CorpSave(D, id, doc, loaded, isNew, t) ==
    LET Write(D2, doc1) ==
            IF isNew THEN [D2 EXCEPT !.corps = @ @@ (id :> doc1)]
            ELSE IF id \in DOMAIN D2.corps
            THEN [D2 EXCEPT !.corps[id] = MergeDoc(@, doc1, loaded)]
            ELSE D2
        Hooks(p1) ==
            CorpPostSave(Write(CorpPreSaveFreeze(p1.db, id, p1.doc, loaded, isNew), p1.doc),
                         id, p1.doc, t)
    IN  Hooks(CorpPreSaveProgress(D, id, doc, t))

----------------------------------------------------------------------------
(* CorporateOKRService *)

\* CorporateOKRService.createCorporateOKR
createCorporateOKR(D, id, krInputs, isFrozen, deadline, t) ==
    LET doc == [isFrozen |-> isFrozen, deadline |-> deadline,
                keyResults |-> [i \in 1..Len(krInputs) |->
                    [metricType |-> krInputs[i].metricType,
                     startValue |-> krInputs[i].startValue,
                     targetValue |-> krInputs[i].targetValue,
                     actualValue |-> krInputs[i].startValue,
                     progress |-> 0, teams |-> krInputs[i].teams]],
                progress |-> 0]
    IN  CorpSave(D, id, doc, doc, TRUE, t)

\* CorporateOKRService.updateOKRFreezeStatus
setCorporateFrozen(D, id, isFrozen, t) ==
    IF id \notin DOMAIN D.corps THEN [db |-> D, result |-> "NotFound"]
    ELSE LET corp == D.corps[id]
             doc  == [corp EXCEPT !.isFrozen = isFrozen]
             D1   == CorpSave(D, id, doc, corp, FALSE, t)
         IN  [db |-> FreezeLinked(D1, id, isFrozen), result |-> "ok"]

\* the progress updateCorporateOKRProgress computes for a key result
CorpKRProgress(kr) ==
    LET span == kr.targetValue - kr.startValue
    IN  IF span = 0 THEN 100
        ELSE Min2(100, Max2(0, RoundPercent(kr.actualValue - kr.startValue, span)))

\* CorporateOKRService.updateCorporateOKRProgress; the mean it assigns to
\* progress is replaced by the pre-save hook before the document is written
updateCorporateOKRProgress(D, id, krIndex, actualValue, t) ==
    IF id \notin DOMAIN D.corps THEN [db |-> D, result |-> "NotFound"]
    ELSE IF krIndex < 0 \/ krIndex >= Len(D.corps[id].keyResults)
    THEN [db |-> D, result |-> "NotFound"]
    ELSE LET corp == D.corps[id]
             kr   == [corp.keyResults[krIndex + 1] EXCEPT !.actualValue = actualValue]
             doc  == [corp EXCEPT !.keyResults[krIndex + 1] =
                                      [kr EXCEPT !.progress = CorpKRProgress(kr)]]
         IN  [db |-> CorpSave(D, id, doc, corp, FALSE, t), result |-> "ok"]

\* CorporateOKRService.updateKeyResult; the caller is the creator of the
\* company. updates holds the fields the request gives; updateOne writes
\* them and runs no save hook
updateKeyResult(D, id, krIndex, updates) ==
    IF id \notin DOMAIN D.corps THEN [db |-> D, result |-> "NotFound"]
    ELSE IF D.corps[id].isFrozen THEN [db |-> D, result |-> "CorporateFrozen"]
    ELSE IF krIndex < 0 \/ krIndex >= Len(D.corps[id].keyResults)
    THEN [db |-> D, result |-> "NotFound"]
    ELSE [db |-> [D EXCEPT !.corps[id].keyResults[krIndex + 1] =
                      [f \in DOMAIN @ |-> IF f \in DOMAIN updates THEN updates[f] ELSE @[f]]],
          result |-> "ok"]

\* CorporateOKRService.assignTeamsToKR; teamIds are distinct, and Team.find
\* returns the teams of Teams among them
assignTeamsToKR(D, id, krIndex, teamIds, t) ==
    IF id \notin DOMAIN D.corps THEN [db |-> D, result |-> "NotFound"]
    ELSE IF D.corps[id].isFrozen THEN [db |-> D, result |-> "CorporateFrozen"]
    ELSE IF krIndex < 0 \/ krIndex >= Len(D.corps[id].keyResults)
    THEN [db |-> D, result |-> "NotFound"]
    ELSE IF ~(teamIds \subseteq Teams) THEN [db |-> D, result |-> "NotFound"]
    ELSE LET corp == D.corps[id]
             doc  == [corp EXCEPT !.keyResults[krIndex + 1].teams = teamIds]
         IN  [db |-> CorpSave(D, id, doc, corp, FALSE, t), result |-> "ok"]

\* a variant that does not look at the freeze flag of the corporate OKR
linkTeamOKRToCorporateIntoFrozen(D, okrId, corpId, krIndex, t) ==
    IF okrId \notin DOMAIN D.okrs THEN [db |-> D, result |-> "NotFound"]
    ELSE IF corpId \notin DOMAIN D.corps THEN [db |-> D, result |-> "NotFound"]
    ELSE IF krIndex < 0 \/ krIndex >= Len(D.corps[corpId].keyResults)
    THEN [db |-> D, result |-> "NotFound"]
    ELSE IF D.okrs[okrId].team \notin D.corps[corpId].keyResults[krIndex + 1].teams
    THEN [db |-> D, result |-> "TeamNotAssigned"]
    ELSE LET D1 == [D EXCEPT !.okrs[okrId].parentOKR = corpId,
                             !.okrs[okrId].parentKRIndex = krIndex,
                             !.okrs[okrId].isFrozen = D.corps[corpId].isFrozen]
         IN  [db |-> recalculateKRProgress(D1, krIndex, corpId, t), result |-> "ok"]

\* a variant that does not look at the teams of the key result
linkTeamOKRToCorporateAnyTeam(D, okrId, corpId, krIndex, t) ==
    IF okrId \notin DOMAIN D.okrs THEN [db |-> D, result |-> "NotFound"]
    ELSE IF corpId \notin DOMAIN D.corps THEN [db |-> D, result |-> "NotFound"]
    ELSE IF D.corps[corpId].isFrozen THEN [db |-> D, result |-> "CorporateFrozen"]
    ELSE IF krIndex < 0 \/ krIndex >= Len(D.corps[corpId].keyResults)
    THEN [db |-> D, result |-> "NotFound"]
    ELSE LET D1 == [D EXCEPT !.okrs[okrId].parentOKR = corpId,
                             !.okrs[okrId].parentKRIndex = krIndex,
                             !.okrs[okrId].isFrozen = D.corps[corpId].isFrozen]
         IN  [db |-> recalculateKRProgress(D1, krIndex, corpId, t), result |-> "ok"]

\* a variant whose update sets the parent link and leaves isFrozen alone
linkTeamOKRToCorporateKeepFrozen(D, okrId, corpId, krIndex, t) ==
    IF okrId \notin DOMAIN D.okrs THEN [db |-> D, result |-> "NotFound"]
    ELSE IF corpId \notin DOMAIN D.corps THEN [db |-> D, result |-> "NotFound"]
    ELSE IF D.corps[corpId].isFrozen THEN [db |-> D, result |-> "CorporateFrozen"]
    ELSE IF krIndex < 0 \/ krIndex >= Len(D.corps[corpId].keyResults)
    THEN [db |-> D, result |-> "NotFound"]
    ELSE IF D.okrs[okrId].team \notin D.corps[corpId].keyResults[krIndex + 1].teams
    THEN [db |-> D, result |-> "TeamNotAssigned"]
    ELSE LET D1 == [D EXCEPT !.okrs[okrId].parentOKR = corpId,
                             !.okrs[okrId].parentKRIndex = krIndex]
         IN  [db |-> recalculateKRProgress(D1, krIndex, corpId, t), result |-> "ok"]

\* CorporateOKRService.linkTeamOKRToCorporate; the caller is the creator of
\* the team OKR
linkTeamOKRToCorporate(D, okrId, corpId, krIndex, t) ==
    IF okrId \notin DOMAIN D.okrs THEN [db |-> D, result |-> "NotFound"]
    ELSE IF corpId \notin DOMAIN D.corps THEN [db |-> D, result |-> "NotFound"]
    ELSE IF D.corps[corpId].isFrozen THEN [db |-> D, result |-> "CorporateFrozen"]
    ELSE IF krIndex < 0 \/ krIndex >= Len(D.corps[corpId].keyResults)
    THEN [db |-> D, result |-> "NotFound"]
    ELSE IF D.okrs[okrId].team \notin D.corps[corpId].keyResults[krIndex + 1].teams
    THEN [db |-> D, result |-> "TeamNotAssigned"]
    ELSE LET D1 == [D EXCEPT !.okrs[okrId].parentOKR = corpId,
                             !.okrs[okrId].parentKRIndex = krIndex,
                             !.okrs[okrId].isFrozen = D.corps[corpId].isFrozen]
         IN  [db |-> recalculateKRProgress(D1, krIndex, corpId, t), result |-> "ok"]

----------------------------------------------------------------------------
(* Routes *)

\* OKR.deleteOne({ _id: id }): the team OKR alone is removed
DeleteOKR(D, id) == [D EXCEPT !.okrs = [o \in DOMAIN @ \ {id} |-> @[o]]]

\* POST /teams/:teamId/okrs: the team OKR is created without a parent, then
\* linked when the request names a parent; a link that throws deletes the
\* team OKR that was created
postTeamOKR(D, id, team, krInputs, isFrozen, deadline, parentOKR, parentKRIndex, t) ==
    LET Linking(D1) ==
            LET Settle(r) == IF r.result = "ok" THEN r
                             ELSE [db |-> DeleteOKR(D1, id), result |-> r.result]
            IN  Settle(linkTeamOKRToCorporate(D1, id, parentOKR, parentKRIndex, t))
        Created(D1) == IF parentOKR # Undef /\ parentKRIndex # Undef
                       THEN Linking(D1)
                       ELSE [db |-> D1, result |-> "ok"]
    IN  Created(createOKR(D, id, team, krInputs, isFrozen, deadline, t))

----------------------------------------------------------------------------
(* Check-in: the hooks of the CheckIn model *)

\* u.f of a stored update; a path the record does not hold reads undefined
Field(u, f) == IF f \in DOMAIN u THEN u[f] ELSE Undef

RECURSIVE ApplyUpdates(_, _)
\* doc.updates.forEach(u => { kr.actualValue = ...; kr.progress = ... })
ApplyUpdates(krs, updates) ==
    IF Len(updates) = 0 THEN krs
    ELSE LET u == updates[1]
         IN  ApplyUpdates([krs EXCEPT ![u.index + 1].actualValue = Field(u, "newActualValue"),
                                      ![u.index + 1].progress = Field(u, "newProgress")],
                          Tail(updates))

\* CheckInSchema.pre('save'): the error it passes to next(), or "ok"
CheckInPreSave(D, rec) ==
    IF rec.okr \notin DOMAIN D.okrs THEN "ok"
    ELSE LET okr == D.okrs[rec.okr]
             HasKR(u) == u.index >= 0 /\ u.index < Len(okr.keyResults)
             willCompleteOKR ==
                 \A i \in 1..Len(rec.updates) :
                     HasKR(rec.updates[i]) /\ rec.updates[i].newProgress = 100
         IN  IF okr.isFrozen THEN "Frozen"
             ELSE IF \E i \in 1..Len(rec.updates) :
                        /\ HasKR(rec.updates[i])
                        /\ okr.keyResults[rec.updates[i].index + 1].progress = 100
                        /\ rec.updates[i].newProgress < 100
             THEN "CannotRegress"
             ELSE IF okr.progress = 100 /\ ~willCompleteOKR THEN "AlreadyComplete"
             ELSE "ok"

\* status and completion date the check-in hook sets from the team progress
TeamClassify(st, progress, deadline, t) ==
    IF progress = 100
    THEN [st EXCEPT !.status = "completed", !.completedAt = t]
    ELSE IF IsNum(progress) /\ progress >= 75
    THEN [st EXCEPT !.status = "on_track"]
    ELSE IF IsNum(progress) /\ progress < 50 /\ deadline # Undef
    THEN IF DaysUntil(deadline, t) <= AtRiskDays
         THEN [st EXCEPT !.status = "at_risk"]
         ELSE st
    ELSE st

\* a variant that records the progress before and after the check-in
CheckInStatsTwoSnapshots(D, rec, okr, t) ==
    IF rec.okr \notin DOMAIN D.okrStats THEN D
    ELSE LET st0 == D.okrStats[rec.okr]
             st1 == [st0 EXCEPT !.progress = okr.progress,
                                !.keyResultsStats = TeamKRStats(okr.keyResults),
                                !.progressHistory =
                                    HistPush(HistPush(@, [date |-> t, value |-> st0.progress,
                                                 keyResultsProgress |-> ProgressOf(okr.keyResults)]),
                                             [date |-> t, value |-> okr.progress,
                                              keyResultsProgress |-> ProgressOf(okr.keyResults)])]
             st2 == TeamClassify(st1, okr.progress, okr.deadline, t)
             st3 == [st2 EXCEPT !.totalCheckIns = @ + 1,
                                !.lastCheckIn = t,
                                !.checkInFrequency =
                                    IF st2.progressHistory.len > 1
                                    THEN [days |-> st2.progressHistory.last.date - st2.progressHistory.first,
                                          intervals |-> st2.progressHistory.len - 1]
                                    ELSE @,
                                !.uniqueContributors = @ \cup {rec.user}]
         IN  [D EXCEPT !.okrStats[rec.okr] = st3]

\* the stats half of CheckInSchema.post('save'); okr is the document after
\* its save
CheckInStats(D, rec, okr, t) ==
    IF rec.okr \notin DOMAIN D.okrStats THEN D
    ELSE LET st0 == D.okrStats[rec.okr]
             st1 == [st0 EXCEPT !.progress = okr.progress,
                                !.keyResultsStats = TeamKRStats(okr.keyResults),
                                !.progressHistory =
                                    HistPush(@, [date |-> t, value |-> okr.progress,
                                                 keyResultsProgress |-> ProgressOf(okr.keyResults)])]
             st2 == TeamClassify(st1, okr.progress, okr.deadline, t)
             st3 == [st2 EXCEPT !.totalCheckIns = @ + 1,
                                !.lastCheckIn = t,
                                !.checkInFrequency =
                                    IF st2.progressHistory.len > 1
                                    THEN [days |-> st2.progressHistory.last.date - st2.progressHistory.first,
                                          intervals |-> st2.progressHistory.len - 1]
                                    ELSE @,
                                !.uniqueContributors = @ \cup {rec.user}]
         IN  [D EXCEPT !.okrStats[rec.okr] = st3]

\* CheckInSchema.post('save')
CheckInPostSave(D, rec, t) ==
    IF rec.okr \notin DOMAIN D.okrs THEN D
    ELSE LET okr == D.okrs[rec.okr]
             krs == ApplyUpdates(okr.keyResults, rec.updates)
             doc == [okr EXCEPT !.keyResults = krs, !.progress = TeamProgress(krs)]
             Stats(sv) == CheckInStats(sv.db, rec, sv.doc, t)
         IN  Stats(OKRSave(D, rec.okr, doc, okr, FALSE, t))

\* a variant that inserts the record before the pre-save hook decides
CheckInSaveInsertFirst(D, rec, t) ==
    LET err == CheckInPreSave(D, rec)
    IN  IF err # "ok" THEN [db |-> [D EXCEPT !.checkIns = Append(@, rec)], result |-> err]
        ELSE [db |-> CheckInPostSave([D EXCEPT !.checkIns = Append(@, rec)], rec, t),
              result |-> "ok"]

\* checkIn.save(): pre-save hook, insert, post-save hook
CheckInSave(D, rec, t) ==
    LET err == CheckInPreSave(D, rec)
    IN  IF err # "ok" THEN [db |-> D, result |-> err]
        ELSE [db |-> CheckInPostSave([D EXCEPT !.checkIns = Append(@, rec)], rec, t),
              result |-> "ok"]

----------------------------------------------------------------------------
(* CheckInService *)

\* the first error of the validation loop over the updates, or "ok"
ValidateUpdates(okr, updates) ==
    LET Bad(u) == u.index < 0 \/ u.index >= Len(okr.keyResults)
                  \/ u.newProgress < 0 \/ u.newProgress > 100
    IN  IF \A i \in 1..Len(updates) : ~Bad(updates[i]) THEN "ok"
        ELSE LET i == CHOOSE j \in 1..Len(updates) :
                          Bad(updates[j]) /\ \A k \in 1..(j - 1) : ~Bad(updates[k])
                 u == updates[i]
             IN  IF u.index < 0 \/ u.index >= Len(okr.keyResults)
                 THEN "InvalidIndex" ELSE "InvalidProgress"

RECURSIVE SetProgress(_, _)
\* for (const update of updates) okr.keyResults[update.index].progress = ...
SetProgress(krs, updates) ==
    IF Len(updates) = 0 THEN krs
    ELSE SetProgress([krs EXCEPT ![updates[1].index + 1].progress = updates[1].newProgress],
                     Tail(updates))

\* the check-in document and Promise.all([checkIn.save(), okr.save()]) for
\* the loaded document okr; order is the order in which the two saves take
\* effect
CheckInSaves(D, okrId, okr, user, updates, order, t) ==
    LET rec == [okr |-> okrId, user |-> user, date |-> t,
                updates |-> [i \in 1..Len(updates) |->
                    [index |-> updates[i].index,
                     previousProgress |-> okr.keyResults[updates[i].index + 1].progress,
                     newProgress |-> updates[i].newProgress]]]
        doc == [okr EXCEPT !.keyResults = SetProgress(@, updates)]
        \* okr.save() taking effect after checkIn.save()
        ThenOKR(c) == [db |-> OKRSave(c.db, okrId, doc, okr, FALSE, t).db,
                       result |-> c.result]
    IN  IF order = "okrFirst"
        THEN CheckInSave(OKRSave(D, okrId, doc, okr, FALSE, t).db, rec, t)
        ELSE ThenOKR(CheckInSave(D, rec, t))

\* CheckInService.createCheckIn
createCheckIn(D, okrId, user, updates, order, t) ==
    IF okrId \notin DOMAIN D.okrs THEN [db |-> D, result |-> "NotFound"]
    ELSE IF ValidateUpdates(D.okrs[okrId], updates) # "ok"
    THEN [db |-> D, result |-> ValidateUpdates(D.okrs[okrId], updates)]
    ELSE LET okr == D.okrs[okrId]
             \* the rollup after both saves went through
             Rollup(both) ==
                 IF both.result # "ok" THEN both
                 ELSE IF okr.parentOKR # Undef /\ okr.parentKRIndex # Undef
                 THEN [db |-> recalculateKRProgress(both.db, okr.parentKRIndex,
                                                    okr.parentOKR, t),
                       result |-> "ok"]
                 ELSE both
         IN  Rollup(CheckInSaves(D, okrId, okr, user, updates, order, t))

----------------------------------------------------------------------------
(* Requests *)

\* team and deadline of the team OKRs that are created
OKRInputs == {[team |-> 1, deadline |-> 4], [team |-> 2, deadline |-> Undef]}

CorpDeadlines == {4}

Number10 == [metricType |-> "number", startValue |-> 0, targetValue |-> 10]

Percent5 == [metricType |-> "percentage", startValue |-> 5, targetValue |-> 5]

\* the key result addKeyResult is asked to add
KRInputs == {Number10}

\* the key results a team OKR is created with; more are added afterwards
KRBatches == {<<>>, <<Percent5>>}

CorpKR(ts) == [metricType |-> "number", startValue |-> 0, targetValue |-> 100, teams |-> ts]

\* the key results a corporate OKR is created with, and their teams
CorpKRBatches ==
    {[i \in 1..n |-> CorpKR(IF i = 1 THEN Teams ELSE {1})] : n \in {1, MaxCorpKR}}

\* updates of a check-in: in range, with an index no OKR has, and with a
\* progress outside 0..100
UpdateInputs ==
    [index : 0..(MaxKR - 1), newProgress : {50, 100}]
        \cup {[index |-> MaxKR, newProgress |-> 50], [index |-> 0, newProgress |-> 101]}

SeqsUpTo(S, n) == UNION {[1..k -> S] : k \in 0..n}

\* batches of updates; a batch of several names its key results in order
Batches ==
    {b \in SeqsUpTo(UpdateInputs, MaxBatch) :
        \A i, j \in 1..Len(b) : i < j => b[i].index < b[j].index}

Orders == {"okrFirst", "checkInFirst"}

----------------------------------------------------------------------------
(* The database as one value, so that hooks can be composed *)

DB == [okrs |-> okrs, okrStats |-> okrStats, corps |-> corps,
       corpStats |-> corpStats, checkIns |-> checkIns]

\* the database a step leaves
Store(D) ==
    \E d \in {D} :
        /\ okrs' = d.okrs
        /\ okrStats' = d.okrStats
        /\ corps' = d.corps
        /\ corpStats' = d.corpStats
        /\ checkIns' = d.checkIns

\* a served request
Commit(D) ==
    /\ ops < MaxOps
    /\ ops' = ops + 1
    /\ Store(D)
    /\ UNCHANGED calls

Init ==
    /\ okrs = <<>>
    /\ okrStats = <<>>
    /\ corps = <<>>
    /\ corpStats = <<>>
    /\ checkIns = <<>>
    /\ now = 0
    /\ ops = 0
    /\ calls = <<>>
    /\ last = [op |-> "init", result |-> "ok"]

Tick ==
    /\ now < MaxTime
    /\ now' = now + 1
    /\ last' = [op |-> "tick", result |-> "ok"]
    /\ UNCHANGED <<okrs, okrStats, corps, corpStats, checkIns, ops, calls>>

CreateOKR ==
    /\ Cardinality(DOMAIN okrs) < MaxOKR
    /\ \E inp \in OKRInputs, krs \in KRBatches, isFrozen \in {FALSE} :
          /\ inp.deadline = Undef \/ inp.deadline > now
          /\ \E id \in {Cardinality(DOMAIN okrs) + 1} :
                 /\ Commit(createOKR(DB, id, inp.team, krs, isFrozen, inp.deadline, now))
                 /\ last' = [op |-> "createOKR", result |-> "ok"]
    /\ UNCHANGED now

AddKeyResult ==
    /\ \E id \in DOMAIN okrs, kr \in KRInputs :
          /\ Len(okrs[id].keyResults) < MaxKR
          /\ \E r \in {addKeyResult(DB, id, kr, now)} :
                 /\ Commit(r.db)
                 /\ last' = [op |-> "addKeyResult", result |-> r.result]
    /\ UNCHANGED now

UpdateOKRFreezeStatus ==
    /\ \E id \in DOMAIN okrs, isFrozen \in BOOLEAN :
          \E r \in {updateOKRFreezeStatus(DB, id, isFrozen, now)} :
              /\ Commit(r.db)
              /\ last' = [op |-> "updateOKRFreezeStatus", result |-> r.result]
    /\ UNCHANGED now

CreateCheckIn ==
    /\ \E id \in 1..MaxOKR, user \in Users,
          updates \in Batches, order \in Orders :
          \E r \in {createCheckIn(DB, id, user, updates, order, now)} :
              /\ Commit(r.db)
              /\ last' = [op |-> "createCheckIn", result |-> r.result]
    /\ UNCHANGED now

CreateCorporateOKR ==
    /\ Cardinality(DOMAIN corps) < MaxCorp
    /\ \E krs \in CorpKRBatches,
          isFrozen \in {FALSE}, deadline \in CorpDeadlines :
          /\ deadline = Undef \/ deadline > now
          /\ \E id \in {Cardinality(DOMAIN corps) + 1} :
                 /\ Commit(createCorporateOKR(DB, id, krs, isFrozen, deadline, now))
                 /\ last' = [op |-> "createCorporateOKR", result |-> "ok"]
    /\ UNCHANGED now

SetCorporateFrozen ==
    /\ \E id \in DOMAIN corps, isFrozen \in BOOLEAN :
          \E r \in {setCorporateFrozen(DB, id, isFrozen, now)} :
              /\ Commit(r.db)
              /\ last' = [op |-> "setCorporateFrozen", result |-> r.result]
    /\ UNCHANGED now

LinkTeamOKRToCorporate ==
    /\ \E okrId \in DOMAIN okrs, corpId \in 1..MaxCorp, krIndex \in 0..MaxCorpKR :
          \E r \in {linkTeamOKRToCorporate(DB, okrId, corpId, krIndex, now)} :
              /\ Commit(r.db)
              /\ last' = [op |-> "linkTeamOKRToCorporate", result |-> r.result]
    /\ UNCHANGED now

Next ==
    \/ Tick
    \/ CreateOKR
    \/ AddKeyResult
    \/ UpdateOKRFreezeStatus
    \/ CreateCheckIn
    \/ CreateCorporateOKR
    \/ SetCorporateFrozen
    \/ LinkTeamOKRToCorporate

Spec == Init /\ [][Next]_vars

----------------------------------------------------------------------------
(* Two check-ins in flight: call p checks in on team OKR p, and the steps of
   the two calls interleave at the awaits of createCheckIn and of the rollup
   that ends it *)

Procs == {1, 2}

EmptyDB == [okrs |-> <<>>, okrStats |-> <<>>, corps |-> <<>>,
            corpStats |-> <<>>, checkIns |-> <<>>]

\* one corporate key result, and the team OKR of each team linked to it
ConcSetup ==
    LET D1 == createCorporateOKR(EmptyDB, 1, <<CorpKR(Teams)>>, FALSE, 4, 0)
        D2 == createOKR(D1, 1, 1, <<Percent5, Number10>>, FALSE, Undef, 0)
        D3 == createOKR(D2, 2, 2, <<Percent5, Number10>>, FALSE, Undef, 0)
        D4 == linkTeamOKRToCorporate(D3, 1, 1, 0, 0).db
    IN  linkTeamOKRToCorporate(D4, 2, 1, 0, 0).db

NoCall == [pc |-> "start", okr |-> Undef, updates |-> <<>>, avg |-> Undef,
           result |-> "none"]

InitConc ==
    /\ \E d \in {ConcSetup} :
           /\ okrs = d.okrs
           /\ okrStats = d.okrStats
           /\ corps = d.corps
           /\ corpStats = d.corpStats
           /\ checkIns = d.checkIns
    /\ now = 0
    /\ ops = 0
    /\ last = [op |-> "init", result |-> "ok"]
    /\ calls = [p \in Procs |-> NoCall]

Done(call, result) == [call EXCEPT !.pc = "done", !.result = result]

\* OKR.findById and the validation loop
ConcLoad ==
    /\ \E p \in Procs, updates \in Batches :
          /\ calls[p].pc = "start"
          /\ calls' = [calls EXCEPT ![p] =
                 IF p \notin DOMAIN okrs THEN Done(@, "NotFound")
                 ELSE IF ValidateUpdates(okrs[p], updates) # "ok"
                 THEN Done(@, ValidateUpdates(okrs[p], updates))
                 ELSE [@ EXCEPT !.pc = "loaded", !.okr = okrs[p], !.updates = updates]]
    /\ UNCHANGED <<okrs, okrStats, corps, corpStats, checkIns, now, ops, last>>

\* await Promise.all([checkIn.save(), okr.save()])
ConcSaves ==
    /\ \E p \in Procs, user \in Users, order \in Orders :
          /\ calls[p].pc = "loaded"
          /\ \E r \in {CheckInSaves(DB, p, calls[p].okr, user, calls[p].updates, order, now)} :
                 /\ Store(r.db)
                 /\ calls' = [calls EXCEPT ![p] =
                        IF r.result # "ok" THEN Done(@, r.result)
                        ELSE IF @.okr.parentOKR # Undef /\ @.okr.parentKRIndex # Undef
                        THEN [@ EXCEPT !.pc = "saved"]
                        ELSE Done(@, "ok")]
    /\ UNCHANGED <<now, ops, last>>

\* the rollup's OKR.find and the mean of what it read
ConcRollupRead ==
    /\ \E p \in Procs :
          /\ calls[p].pc = "saved"
          /\ \E S \in {Linked(DB, calls[p].okr.parentOKR, calls[p].okr.parentKRIndex)} :
                 calls' = [calls EXCEPT ![p] =
                     IF S = {} THEN Done(@, "ok")
                     ELSE [@ EXCEPT !.pc = "read", !.avg = AverageProgress(DB, S)]]
    /\ UNCHANGED <<okrs, okrStats, corps, corpStats, checkIns, now, ops, last>>

\* the rollup's writes of the mean it computed
ConcRollupWrite ==
    /\ \E p \in Procs :
          /\ calls[p].pc = "read"
          /\ Store(RecalcWrite(DB, calls[p].okr.parentKRIndex, calls[p].okr.parentOKR,
                               calls[p].avg, now))
          /\ calls' = [calls EXCEPT ![p] = Done(@, "ok")]
    /\ UNCHANGED <<now, ops, last>>

NextConc ==
    \/ ConcLoad
    \/ ConcSaves
    \/ ConcRollupRead
    \/ ConcRollupWrite

SpecConc == InitConc /\ [][NextConc]_vars

----------------------------------------------------------------------------
(* Requests served on a populated database: one corporate OKR with two key
   results and the team OKR of each team, linked or not *)

\* the database after the corporate OKR and the two team OKRs were created
\* and team OKR 1 was linked to key result l1, team OKR 2 to key result l2
\* (Undef: not linked)
LinkedSetup(l1, l2) ==
    LET D1 == createCorporateOKR(EmptyDB, 1, <<CorpKR(Teams), CorpKR({1})>>, FALSE, 4, 0)
        D2 == createOKR(D1, 1, 1, <<Percent5>>, FALSE, 4, 0)
        D3 == createOKR(D2, 2, 2, <<>>, FALSE, Undef, 0)
        Link(D, o, l) == IF l = Undef THEN D ELSE linkTeamOKRToCorporate(D, o, 1, l, 0).db
    IN  Link(Link(D3, 1, l1), 2, l2)

InitLinked ==
    /\ \E l1 \in {Undef, 0, 1}, l2 \in {Undef, 0} :
          \E d \in {LinkedSetup(l1, l2)} :
              /\ okrs = d.okrs
              /\ okrStats = d.okrStats
              /\ corps = d.corps
              /\ corpStats = d.corpStats
              /\ checkIns = d.checkIns
    /\ now = 0
    /\ ops = MaxOps - LinkedOps
    /\ last = [op |-> "init", result |-> "ok"]
    /\ calls = <<>>

NextLinked ==
    \/ Tick
    \/ AddKeyResult
    \/ UpdateOKRFreezeStatus
    \/ CreateCheckIn
    \/ SetCorporateFrozen
    \/ LinkTeamOKRToCorporate

SpecLinked == InitLinked /\ [][NextLinked]_vars

----------------------------------------------------------------------------
(* The metric calculator on key results of every kind, start and target *)

MetricKinds == {"number", "percentage", "currency", "custom"}

\* how far below 0 the drawn values reach
CalcBelow == 1

CalcMax == 41

CalcOps == 1

\* the start values, and the target and actual values, that are drawn
CalcStarts == {0 - CalcBelow, 0, 1}

CalcValues == (0 - CalcBelow)..CalcMax

\* the database after a corporate OKR and a team OKR were created, each with
\* one key result of kind k from s to g
CalcSetup(k, s, g) ==
    LET D1 == createCorporateOKR(EmptyDB, 1,
                  <<[metricType |-> k, startValue |-> s, targetValue |-> g, teams |-> Teams]>>,
                  FALSE, 4, 0)
    IN  createOKR(D1, 1, 1, <<[metricType |-> k, startValue |-> s, targetValue |-> g]>>,
                  FALSE, 4, 0)

InitCalc ==
    /\ \E k \in MetricKinds, s \in CalcStarts, g \in CalcValues :
          \E d \in {CalcSetup(k, s, g)} :
              /\ okrs = d.okrs
              /\ okrStats = d.okrStats
              /\ corps = d.corps
              /\ corpStats = d.corpStats
              /\ checkIns = d.checkIns
    /\ now = 0
    /\ ops = MaxOps - CalcOps
    /\ last = [op |-> "init", result |-> "ok"]
    /\ calls = <<>>

UpdateCorporateOKRProgress ==
    /\ \E id \in DOMAIN corps, krIndex \in 0..MaxCorpKR, actualValue \in CalcValues :
          \E r \in {updateCorporateOKRProgress(DB, id, krIndex, actualValue, now)} :
              /\ Commit(r.db)
              /\ last' = [op |-> "updateCorporateOKRProgress", result |-> r.result]
    /\ UNCHANGED now

NextCalc ==
    \/ UpdateCorporateOKRProgress
    \/ AddKeyResult

SpecCalc == InitCalc /\ [][NextCalc]_vars

----------------------------------------------------------------------------
(* Requests of the company creator on the populated database *)

\* the team lists assignTeamsToKR is given; team 3 does not exist
TeamLists == {{}, {1}, {2}, Teams, {1, 3}}

\* the fields updateKeyResult is given
KRUpdates == {[targetValue |-> 50], [teams |-> {2}], [startValue |-> 10, metricType |-> "percentage"]}

\* the actual values reported for a corporate key result
ReportedValues == {0, 30, 100}

AssignTeamsToKR ==
    /\ \E id \in DOMAIN corps, krIndex \in 0..MaxCorpKR, teamIds \in TeamLists :
          \E r \in {assignTeamsToKR(DB, id, krIndex, teamIds, now)} :
              /\ Commit(r.db)
              /\ last' = [op |-> "assignTeamsToKR", result |-> r.result]
    /\ UNCHANGED now

UpdateKeyResult ==
    /\ \E id \in DOMAIN corps, krIndex \in 0..MaxCorpKR, updates \in KRUpdates :
          \E r \in {updateKeyResult(DB, id, krIndex, updates)} :
              /\ Commit(r.db)
              /\ last' = [op |-> "updateKeyResult", result |-> r.result]
    /\ UNCHANGED now

ReportCorporateProgress ==
    /\ \E id \in DOMAIN corps, krIndex \in 0..MaxCorpKR, actualValue \in ReportedValues :
          \E r \in {updateCorporateOKRProgress(DB, id, krIndex, actualValue, now)} :
              /\ Commit(r.db)
              /\ last' = [op |-> "updateCorporateOKRProgress", result |-> r.result]
    /\ UNCHANGED now

NextCorp ==
    \/ AssignTeamsToKR
    \/ UpdateKeyResult
    \/ ReportCorporateProgress
    \/ SetCorporateFrozen
    \/ LinkTeamOKRToCorporate
    \/ UpdateOKRFreezeStatus

SpecCorp == InitLinked /\ [][NextCorp]_vars

----------------------------------------------------------------------------
(* Team OKRs created through the route, with and without a parent *)

\* the parent a request names: none, key results of corporate OKR 1, and a
\* corporate OKR that does not exist
ParentInputs ==
    {[parentOKR |-> Undef, parentKRIndex |-> Undef]}
        \cup [parentOKR : {1, MaxCorp + 1}, parentKRIndex : 0..MaxCorpKR]

\* an identifier no team OKR and no stats record has
FreshOKR == CHOOSE id \in 1..(MaxOps + 1) : id \notin DOMAIN okrs \cup DOMAIN okrStats

PostTeamOKR ==
    /\ Cardinality(DOMAIN okrs) < MaxOKR
    /\ \E inp \in OKRInputs, krs \in KRBatches, parent \in ParentInputs :
          /\ inp.deadline = Undef \/ inp.deadline > now
          /\ \E r \in {postTeamOKR(DB, FreshOKR, inp.team, krs, FALSE, inp.deadline,
                                   parent.parentOKR, parent.parentKRIndex, now)} :
                 /\ Commit(r.db)
                 /\ last' = [op |-> "postTeamOKR", result |-> r.result]
    /\ UNCHANGED now

NextCreate ==
    \/ PostTeamOKR
    \/ CreateCorporateOKR
    \/ SetCorporateFrozen
    \/ AddKeyResult

SpecCreate == Init /\ [][NextCreate]_vars

----------------------------------------------------------------------------
(* The cascade of one request, one hook invocation at a step.  A request is
   served as in the other specifications; the saves and rollups it made are
   then replayed in call order.  calls.pending is the stack of invocations
   still to run, each with the chain of invocations that led to it. *)

\* the invocations of one cascade that are run at most
MaxHooks == 12

\* an invocation: save() of a document, or a call of the rollup function
HookInv(h, id, k) == [hook |-> h, id |-> id, k |-> k]

\* OKRStats has no save hook
OKRStatsSaveHooks(D, id) == <<>>

\* a variant whose stats hook saves the corporate OKR again
CorpStatsSaveHooksResave(D, id) == <<HookInv("CorporateOKR.save", id, Undef)>>

\* CorporateOKRStatsSchema.pre('save') classifies and saves nothing else
CorpStatsSaveHooks(D, id) == <<>>

\* recalculateKRProgress writes the corporate OKR with updateOne, which runs
\* no hook, and saves the stats
RollupHooks(D, corpId, krIndex) ==
    IF /\ Linked(D, corpId, krIndex) # {}
       /\ corpId \in DOMAIN D.corps
       /\ corpId \in DOMAIN D.corpStats
    THEN <<HookInv("CorporateOKRStats.save", corpId, Undef)>>
    ELSE <<>>

\* OKRSchema.pre('save'): the rollup of the parent key result, then the
\* stats when the flag or the parent link is modified
OKRSaveHooks(D, id) ==
    (IF D.okrs[id].parentOKR # Undef /\ D.okrs[id].parentKRIndex # Undef
     THEN <<HookInv("recalculateKRProgress", D.okrs[id].parentOKR, D.okrs[id].parentKRIndex)>>
     ELSE <<>>)
    \o (IF id \in DOMAIN D.okrStats THEN <<HookInv("OKRStats.save", id, Undef)>> ELSE <<>>)

\* the hooks of CorporateOKR around save(): the rollup of every key result,
\* the freeze sync, and after the write the stats of the linked team OKRs
\* and of the corporate OKR
CorpSaveHooks(D, id) ==
    [i \in 1..Len(D.corps[id].keyResults) |-> HookInv("recalculateKRProgress", id, i - 1)]
    \o (IF id \in DOMAIN D.corpStats
        THEN <<HookInv("CorporateOKRStats.save", id, Undef)>> ELSE <<>>)
    \o [i \in 1..Cardinality(LinkedTo(D, id) \cap DOMAIN D.okrStats) |->
           HookInv("OKRStats.save", SetToSeq(LinkedTo(D, id) \cap DOMAIN D.okrStats)[i], Undef)]
    \o <<HookInv("CorporateOKRStats.save", id, Undef)>>

\* the hooks of CheckIn: after the write the team OKR is saved, then its stats
CheckInSaveHooks(D, id) ==
    IF id \in DOMAIN D.okrs
    THEN <<HookInv("OKR.save", id, Undef)>>
         \o (IF id \in DOMAIN D.okrStats THEN <<HookInv("OKRStats.save", id, Undef)>> ELSE <<>>)
    ELSE <<>>

\* the invocations that invocation inv makes, in call order
Triggered(D, inv) ==
    CASE inv.hook = "CheckIn.save" -> CheckInSaveHooks(D, inv.id)
      [] inv.hook = "OKR.save" -> OKRSaveHooks(D, inv.id)
      [] inv.hook = "CorporateOKR.save" -> CorpSaveHooks(D, inv.id)
      [] inv.hook = "recalculateKRProgress" -> RollupHooks(D, inv.id, inv.k)
      [] inv.hook = "CorporateOKRStats.save" -> CorpStatsSaveHooks(D, inv.id)
      [] inv.hook = "OKRStats.save" -> OKRStatsSaveHooks(D, inv.id)

InitHooks ==
    /\ \E l1 \in {Undef, 0, 1}, l2 \in {Undef, 0} :
          \E d \in {LinkedSetup(l1, l2)} :
              /\ okrs = d.okrs
              /\ okrStats = d.okrStats
              /\ corps = d.corps
              /\ corpStats = d.corpStats
              /\ checkIns = d.checkIns
    /\ now = 0
    /\ ops = MaxOps - 1
    /\ last = [op |-> "init", result |-> "ok"]
    /\ calls = [pending |-> <<>>, invoked |-> 0]

\* request op was served with outcome r; a request that was served in full
\* made the invocations invs of the database it left
Enter(op, r, invs) ==
    /\ last.op = "init"
    /\ ops < MaxOps
    /\ ops' = ops + 1
    /\ Store(r.db)
    /\ last' = [op |-> op, result |-> r.result]
    /\ calls' = [pending |-> IF r.result = "ok"
                             THEN [i \in 1..Len(invs) |-> [inv |-> invs[i], chain |-> <<>>]]
                             ELSE <<>>,
                 invoked |-> 0]
    /\ UNCHANGED now

\* CheckInService.createCheckIn: Promise.all([checkIn.save(), okr.save()]),
\* then the rollup of a linked team OKR
EnterCheckIn ==
    \E id \in DOMAIN okrs, user \in Users, updates \in Batches, order \in Orders :
        \E r \in {createCheckIn(DB, id, user, updates, order, now)} :
            Enter("createCheckIn", r,
                  <<HookInv("CheckIn.save", id, Undef), HookInv("OKR.save", id, Undef)>>
                  \o (IF okrs[id].parentOKR # Undef /\ okrs[id].parentKRIndex # Undef
                      THEN <<HookInv("recalculateKRProgress", okrs[id].parentOKR,
                                     okrs[id].parentKRIndex)>>
                      ELSE <<>>))

EnterAddKeyResult ==
    \E id \in DOMAIN okrs, kr \in KRInputs :
        /\ Len(okrs[id].keyResults) < MaxKR
        /\ \E r \in {addKeyResult(DB, id, kr, now)} :
               Enter("addKeyResult", r, <<HookInv("OKR.save", id, Undef)>>)

EnterLink ==
    \E okrId \in DOMAIN okrs, corpId \in 1..MaxCorp, krIndex \in 0..MaxCorpKR :
        \E r \in {linkTeamOKRToCorporate(DB, okrId, corpId, krIndex, now)} :
            Enter("linkTeamOKRToCorporate", r,
                  <<HookInv("recalculateKRProgress", corpId, krIndex)>>)

EnterSetCorporateFrozen ==
    \E id \in DOMAIN corps, isFrozen \in BOOLEAN :
        \E r \in {setCorporateFrozen(DB, id, isFrozen, now)} :
            Enter("setCorporateFrozen", r, <<HookInv("CorporateOKR.save", id, Undef)>>)

EnterAssignTeams ==
    \E id \in DOMAIN corps, krIndex \in 0..MaxCorpKR, teamIds \in TeamLists :
        \E r \in {assignTeamsToKR(DB, id, krIndex, teamIds, now)} :
            Enter("assignTeamsToKR", r, <<HookInv("CorporateOKR.save", id, Undef)>>)

\* the invocation on top of the stack runs and makes its own
HookStep ==
    /\ calls.pending # <<>>
    /\ calls.invoked < MaxHooks
    /\ \E top \in {Head(calls.pending)} :
          \E made \in {Triggered(DB, top.inv)} :
              calls' = [pending |-> [i \in 1..Len(made) |->
                                        [inv |-> made[i], chain |-> Append(top.chain, top.inv)]]
                                    \o Tail(calls.pending),
                        invoked |-> calls.invoked + 1]
    /\ UNCHANGED <<okrs, okrStats, corps, corpStats, checkIns, now, ops, last>>

NextHooks ==
    \/ EnterCheckIn
    \/ EnterAddKeyResult
    \/ EnterLink
    \/ EnterSetCorporateFrozen
    \/ EnterAssignTeams
    \/ HookStep

\* an awaited hook is run by the event loop; no request has to arrive
SpecHooks == InitHooks /\ [][NextHooks]_vars /\ WF_vars(HookStep)

----------------------------------------------------------------------------
(* Properties *)

\* the requests a check-in can be made with in the current state
CheckInRequests == [okr : DOMAIN okrs, user : Users, updates : Batches, order : Orders]

\* the outcome of a check-in request in the current state
CheckInOutcome(q) == createCheckIn(DB, q.okr, q.user, q.updates, q.order, now)

\* every index of the batch names a key result and every progress is in 0..100
WellFormed(okr, updates) ==
    \A i \in 1..Len(updates) :
        /\ updates[i].index >= 0 /\ updates[i].index < Len(okr.keyResults)
        /\ updates[i].newProgress >= 0 /\ updates[i].newProgress <= 100

\* some update lowers a key result that is at 100
Regresses(okr, updates) ==
    \E i \in 1..Len(updates) :
        /\ okr.keyResults[updates[i].index + 1].progress = 100
        /\ updates[i].newProgress < 100

\* C1: a check-in on a frozen team OKR is rejected with Frozen, and the OKR
\* (key results and progress), its stats and the check-in records are as
\* before the call.
C1_FrozenRejected ==
    \A q \in CheckInRequests :
        okrs[q.okr].isFrozen =>
            \A r \in {CheckInOutcome(q)} :
                /\ r.result = "Frozen"
                /\ r.db.okrs[q.okr] = okrs[q.okr]
                /\ r.db.okrStats[q.okr] = okrStats[q.okr]
                /\ r.db.checkIns = checkIns

\* C2: a batch that lowers a key result at 100, on an OKR that is not frozen
\* and with every index in range, is rejected with CannotRegress and nothing
\* in the database changes, the linked corporate OKR and its stats included.
C2_CannotRegressNoChange ==
    \A q \in CheckInRequests :
        (/\ ~okrs[q.okr].isFrozen
         /\ WellFormed(okrs[q.okr], q.updates)
         /\ Regresses(okrs[q.okr], q.updates))
        => \A r \in {CheckInOutcome(q)} :
               /\ r.result = "CannotRegress"
               /\ r.db = DB

\* C3: a check-in is all or nothing: a call that ends with an error leaves
\* the database as it was, and an accepted call has stored its record.
C3_AllOrNothing ==
    \A q \in CheckInRequests :
        \A r \in {CheckInOutcome(q)} :
            IF r.result = "ok"
            THEN Len(r.db.checkIns) = Len(checkIns) + 1
            ELSE r.db = DB

\* round(mean) of the stored progress of a set of team OKRs
RoundMeanProgress(D, S) ==
    MathRound(SumSeq([i \in 1..Cardinality(S) |-> D.okrs[SetToSeq(S)[i]].progress]),
              Cardinality(S))

\* C4: every corporate key result with linked team OKRs holds round(mean of
\* their current progress).
C4_RollupInvariant ==
    \A c \in DOMAIN corps :
        \A k \in 1..Len(corps[c].keyResults) :
            \A S \in {Linked(DB, c, k - 1)} :
                (S # {} /\ \A o \in S : IsNum(okrs[o].progress))
                => corps[c].keyResults[k].progress = RoundMeanProgress(DB, S)

\* the corporate key result a team OKR is linked to holds the mean of the
\* progress stored in D
RolledUp(D, id) ==
    \A okr \in {D.okrs[id]} :
        (/\ okr.parentOKR \in DOMAIN D.corps
         /\ okr.parentKRIndex # Undef
         /\ okr.parentKRIndex < Len(D.corps[okr.parentOKR].keyResults))
        => D.corps[okr.parentOKR].keyResults[okr.parentKRIndex + 1].progress
               = AverageProgress(D, Linked(D, okr.parentOKR, okr.parentKRIndex))

\* C5: when addKeyResult or an accepted check-in changes the progress of a
\* linked team OKR, the corporate key result afterwards holds the mean
\* computed from the new progress.
C5_RollupSeesNewProgress ==
    \A id \in DOMAIN okrs :
        /\ \A kr \in KRInputs :
               \A r \in {addKeyResult(DB, id, kr, now)} :
                   r.db.okrs[id].progress # okrs[id].progress => RolledUp(r.db, id)
        /\ \A q \in CheckInRequests :
               q.okr = id =>
                   \A r \in {CheckInOutcome(q)} :
                       (r.result = "ok" /\ r.db.okrs[id].progress # okrs[id].progress)
                       => RolledUp(r.db, id)

C7_FreezeCascade ==
    \A c \in DOMAIN corps, v \in BOOLEAN :
        \A r \in {setCorporateFrozen(DB, c, v, now)} :
            /\ r.result = "ok"
            /\ r.db.corps[c].isFrozen = v
            /\ \A o \in LinkedTo(r.db, c) : r.db.okrs[o].isFrozen = v

\* a corporate freeze has just flipped the flag of a corporate OKR with a
\* team OKR linked to a key result other than the first
C7_Witness ==
    /\ last.op = "setCorporateFrozen"
    /\ \E c \in DOMAIN corps :
           /\ corps[c].isFrozen
           /\ \E o \in LinkedTo(DB, c) : okrs[o].parentKRIndex > 0 /\ okrs[o].isFrozen

\* C8: once a stats record, team or corporate, holds a completion date, no
\* step changes it.
C8_CompletedAtKept ==
    [][/\ \A o \in DOMAIN okrStats :
              okrStats[o].completedAt # Undef
              => okrStats'[o].completedAt = okrStats[o].completedAt
       /\ \A c \in DOMAIN corpStats :
              corpStats[c].completedAt # Undef
              => corpStats'[c].completedAt = corpStats[c].completedAt]_vars

\* round(arithmetic mean) of a list of progress values, 0 for the empty
\* list; a list with a value that is not a number has no mean
RoundMean(ps) ==
    IF Len(ps) = 0 THEN 0
    ELSE IF SumSeq(ps) = NaN THEN NaN
    ELSE MathRound(SumSeq(ps), Len(ps))

MetricCalculator(startValue, targetValue, actualValue) ==
    IF targetValue = startValue THEN 100
    ELSE IF ~IsNum(actualValue) THEN NaN
    ELSE Min2(100, Max2(0, MathRound((actualValue - startValue) * 100,
                                     targetValue - startValue)))

C11_FrozenInherited ==
    \A c \in DOMAIN corps :
        corps[c].isFrozen => \A o \in LinkedTo(DB, c) : okrs[o].isFrozen

\* C12: setting the frozen flag of a team OKR directly leaves the frozen flag
\* of every corporate OKR, of its stats, and of every other team OKR as it
\* was.
C12_NoUpwardEffect ==
    \A o \in DOMAIN okrs, v \in BOOLEAN :
        \A r \in {updateOKRFreezeStatus(DB, o, v, now)} :
            /\ \A c \in DOMAIN corps :
                   /\ r.db.corps[c].isFrozen = corps[c].isFrozen
                   /\ r.db.corpStats[c].isFrozen = corpStats[c].isFrozen
            /\ \A o2 \in DOMAIN okrs \ {o} :
                   r.db.okrs[o2].isFrozen = okrs[o2].isFrozen

\* a linked team OKR has just been frozen directly, and its corporate OKR,
\* the corporate stats and another team OKR linked there are not frozen
C12_Witness ==
    /\ last.op = "updateOKRFreezeStatus"
    /\ \E c \in DOMAIN corps :
           /\ ~corps[c].isFrozen
           /\ ~corpStats[c].isFrozen
           /\ \E o \in LinkedTo(DB, c), o2 \in LinkedTo(DB, c) :
                  o # o2 /\ okrs[o].isFrozen /\ ~okrs[o2].isFrozen

\* the link requests that can be made in the current state
LinkRequests == [okr : DOMAIN okrs, corp : DOMAIN corps, krIndex : 0..MaxCorpKR]

\* the outcome of a link request in the current state
LinkOutcome(q) == linkTeamOKRToCorporate(DB, q.okr, q.corp, q.krIndex, now)

C14_LinkTeamNotAssigned ==
    \A q \in LinkRequests :
        (/\ q.krIndex < Len(corps[q.corp].keyResults)
         /\ okrs[q.okr].team \notin corps[q.corp].keyResults[q.krIndex + 1].teams)
        => \A r \in {LinkOutcome(q)} :
               /\ r.result # "ok"
               /\ r.db.okrs[q.okr] = okrs[q.okr]
               /\ r.db.corps[q.corp] = corps[q.corp]

\* a link request has just failed because the team is not assigned to the
\* key result
C14_Witness ==
    /\ last.op = "linkTeamOKRToCorporate"
    /\ last.result = "TeamNotAssigned"
    /\ \E o \in DOMAIN okrs, c \in DOMAIN corps :
           \E k \in 1..Len(corps[c].keyResults) :
               okrs[o].team \notin corps[c].keyResults[k].teams

\* the first precondition of a check-in that fails, in the order NotFound,
\* Frozen, InvalidIndex, CannotRegress, AlreadyComplete, or "ok"
FirstFailure(D, okrId, updates) ==
    IF okrId \notin DOMAIN D.okrs THEN "NotFound"
    ELSE LET okr == D.okrs[okrId]
             InRange(u) == u.index >= 0 /\ u.index < Len(okr.keyResults)
         IN  IF okr.isFrozen THEN "Frozen"
             ELSE IF \E i \in 1..Len(updates) : ~InRange(updates[i]) THEN "InvalidIndex"
             ELSE IF Regresses(okr, updates) THEN "CannotRegress"
             ELSE IF /\ okr.progress = 100
                     /\ \E i \in 1..Len(updates) : updates[i].newProgress # 100
             THEN "AlreadyComplete"
             ELSE "ok"

\* C15: a check-in with every progress in 0..100 that fails a precondition
\* is rejected with the first failure in the order NotFound, Frozen,
\* InvalidIndex, CannotRegress, AlreadyComplete.
C15_ErrorOrder ==
    \A okrId \in 1..MaxOKR, user \in Users, updates \in Batches, order \in Orders :
        (/\ \A i \in 1..Len(updates) :
                updates[i].newProgress >= 0 /\ updates[i].newProgress <= 100
         /\ FirstFailure(DB, okrId, updates) # "ok")
        => createCheckIn(DB, okrId, user, updates, order, now).result
               = FirstFailure(DB, okrId, updates)

\* C16: on a team OKR at progress 100 that is not frozen, a well-formed batch
\* whose updates all ask for 100 is accepted, and any other well-formed
\* batch is rejected (AlreadyComplete, or CannotRegress when it lowers a key
\* result at 100) and leaves the database as it was.
C16_AlreadyComplete ==
    \A q \in CheckInRequests :
        (/\ okrs[q.okr].progress = 100
         /\ ~okrs[q.okr].isFrozen
         /\ WellFormed(okrs[q.okr], q.updates))
        => \A r \in {CheckInOutcome(q)} :
               IF \A i \in 1..Len(q.updates) : q.updates[i].newProgress = 100
               THEN r.result = "ok"
               ELSE /\ r.result \in {"AlreadyComplete", "CannotRegress"}
                    /\ r.db = DB

\* the check-in records of a team OKR
RecordsOf(cs, o) == {n \in 1..Len(cs) : cs[n].okr = o}

\* C17: a step adds one check-in record when it is an accepted check-in and
\* otherwise leaves the records alone; the records already stored are never
\* changed or removed, and every team OKR has as many records as its stats
\* counted accepted check-ins.
C17_OneRecordPerCheckIn ==
    [][/\ IF last'.op = "createCheckIn" /\ last'.result = "ok"
          THEN /\ Len(checkIns') = Len(checkIns) + 1
               /\ SubSeq(checkIns', 1, Len(checkIns)) = checkIns
          ELSE checkIns' = checkIns
       /\ \A o \in DOMAIN okrStats' :
              Cardinality(RecordsOf(checkIns', o)) = okrStats'[o].totalCheckIns]_vars

\* a second check-in on a team OKR has just been accepted after another
\* request on it was made
C17_Witness ==
    /\ last.op = "createCheckIn"
    /\ last.result = "ok"
    /\ \E o \in DOMAIN okrs : Cardinality(RecordsOf(checkIns, o)) = 2

\* the Classification Rule: the status of a progress value and a deadline
ClassificationRule(progress, deadline, t) ==
    IF progress = 100 THEN "completed"
    ELSE IF IsNum(progress) /\ progress >= 75 THEN "on_track"
    ELSE IF /\ IsNum(progress) /\ progress < 50
            /\ deadline # Undef /\ DaysUntil(deadline, t) <= AtRiskDays
    THEN "at_risk"
    ELSE "on_track"

\* C18: after an accepted check-in the status of the team OKR's stats is the
\* Classification Rule of the OKR's new progress and its deadline, whatever
\* the status was before.
C18_StatusClassified ==
    \A q \in CheckInRequests :
        \A r \in {CheckInOutcome(q)} :
            r.result = "ok"
            => r.db.okrStats[q.okr].status =
                   ClassificationRule(r.db.okrs[q.okr].progress,
                                      r.db.okrs[q.okr].deadline, now)

\* C19: the stats of every team OKR hold the OKR's current progress and list
\* its current key results with their current progress.
C19_StatsMirrorOKR ==
    \A o \in DOMAIN okrs :
        o \in DOMAIN okrStats
        => /\ okrStats[o].progress = okrs[o].progress
           /\ Len(okrStats[o].keyResultsStats) = Len(okrs[o].keyResults)
           /\ \A i \in 1..Len(okrs[o].keyResults) :
                  okrStats[o].keyResultsStats[i].progress = okrs[o].keyResults[i].progress

\* C20: after setCorporateFrozen(c, v) the stats of c have isFrozen = v and
\* so have the stats of every team OKR linked to c.
C20_FrozenMirrored ==
    \A c \in DOMAIN corps, v \in BOOLEAN :
        \A r \in {setCorporateFrozen(DB, c, v, now)} :
            r.result = "ok"
            => /\ r.db.corpStats[c].isFrozen = v
               /\ \A o \in LinkedTo(r.db, c) : r.db.okrStats[o].isFrozen = v

\* C21: after a successful link the stats of the team OKR hold the parent
\* link (corporate OKR, key result index) and the OKR's frozen flag.
C21_LinkMirroredInStats ==
    \A q \in LinkRequests :
        \A r \in {LinkOutcome(q)} :
            r.result = "ok"
            => /\ r.db.okrStats[q.okr].parentOKR = q.corp
               /\ r.db.okrStats[q.okr].parentKRIndex = q.krIndex
               /\ r.db.okrStats[q.okr].isFrozen = r.db.okrs[q.okr].isFrozen

\* the corporate OKR c of D holds round(mean of its key results' progress)
\* and its stats hold its progress and the progress of each key result
CorpInSync(D, c) ==
    /\ D.corps[c].progress = RoundMean(ProgressOf(D.corps[c].keyResults))
    /\ D.corpStats[c].progress = D.corps[c].progress
    /\ Len(D.corpStats[c].keyResultsStats) = Len(D.corps[c].keyResults)
    /\ \A i \in 1..Len(D.corps[c].keyResults) :
           D.corpStats[c].keyResultsStats[i].progress = D.corps[c].keyResults[i].progress

\* C22: after a rollup of a corporate key result that has linked team OKRs,
\* run on its own, by a link or by an accepted check-in on a linked team OKR,
\* the corporate OKR's progress is round(mean of its key results' progress)
\* and its stats hold that progress and the progress of each key result.
C22_RollupSyncsCorporate ==
    /\ \A c \in DOMAIN corps :
           \A k \in 1..Len(corps[c].keyResults) :
               Linked(DB, c, k - 1) # {}
               => CorpInSync(recalculateKRProgress(DB, k - 1, c, now), c)
    /\ \A q \in LinkRequests :
           \A r \in {LinkOutcome(q)} : r.result = "ok" => CorpInSync(r.db, q.corp)
    /\ \A q \in CheckInRequests :
           \A r \in {CheckInOutcome(q)} :
               (r.result = "ok" /\ okrs[q.okr].parentOKR # Undef /\ okrs[q.okr].parentKRIndex # Undef)
               => CorpInSync(r.db, okrs[q.okr].parentOKR)

\* a link has just moved a key result to 50 and a corporate OKR with two key
\* results to 25, and the stats hold both
C22_Witness ==
    /\ last.op = "linkTeamOKRToCorporate"
    /\ last.result = "ok"
    /\ \E c \in DOMAIN corps :
           /\ Len(corps[c].keyResults) = 2
           /\ corps[c].keyResults[1].progress = 50
           /\ corps[c].progress = 25
           /\ corpStats[c].progress = 25
           /\ corpStats[c].keyResultsStats[1].progress = 50

\* the link request q moves a linked team OKR to another corporate key result
Repoints(q) ==
    /\ okrs[q.okr].parentOKR # Undef
    /\ okrs[q.okr].parentKRIndex # Undef
    /\ <<okrs[q.okr].parentOKR, okrs[q.okr].parentKRIndex>> # <<q.corp, q.krIndex>>

\* C23: when a link moves a team OKR from one corporate key result to
\* another, the key result it leaves holds round(mean of the team OKRs still
\* linked to it), or its old progress when none is left, and the key result it
\* joins holds round(mean of its linked team OKRs, the moved one included).
C23_RepointRollsUpBoth ==
    \A q \in LinkRequests :
        (Repoints(q) /\ \A o \in DOMAIN okrs : IsNum(okrs[o].progress))
        => \A r \in {LinkOutcome(q)} :
               r.result = "ok"
               => LET c == okrs[q.okr].parentOKR
                      k == okrs[q.okr].parentKRIndex + 1
                      S == Linked(r.db, c, k - 1)
                  IN  /\ r.db.corps[c].keyResults[k].progress =
                             IF S = {} THEN corps[c].keyResults[k].progress
                             ELSE RoundMeanProgress(r.db, S)
                      /\ r.db.corps[q.corp].keyResults[q.krIndex + 1].progress =
                             RoundMeanProgress(r.db, Linked(r.db, q.corp, q.krIndex))

\* C24: a rollup called for a corporate OKR that does not exist, or for an
\* index outside its key results, signals NotFound and changes nothing.
C24_RollupNotFound ==
    \A c \in 1..(MaxCorp + 1), k \in 0..MaxCorpKR :
        (c \notin DOMAIN corps \/ k >= Len(corps[c].keyResults))
        => \A r \in {recalculateKRProgressCall(DB, k, c, now)} :
               r.result = "NotFound" /\ r.db = DB

\* corporate OKR c has one key result, for the teams of the team OKRs a and
\* b; a is at 100 and b at 0; one of the two is linked to the key result and
\* the other, o, is not linked yet
HalfLinked(c, a, b, o) ==
    /\ Len(corps[c].keyResults) = 1
    /\ ~corps[c].isFrozen
    /\ okrs[a].team # okrs[b].team
    /\ {okrs[a].team, okrs[b].team} \subseteq corps[c].keyResults[1].teams
    /\ okrs[a].progress = 100
    /\ okrs[b].progress = 0
    /\ o \in {a, b}
    /\ Linked(DB, c, 0) = {a, b} \ {o}
    /\ okrs[o].parentOKR = Undef

\* C25: with a corporate OKR of one key result for two teams, a team OKR of
\* one team at 100 and a team OKR of the other at 0, the link that completes
\* the pair, whichever of the two it links last, leaves the key result at 50
\* and the corporate OKR at 50.
C25_LinkBothGivesFifty ==
    \A c \in DOMAIN corps, a \in DOMAIN okrs, b \in DOMAIN okrs, o \in DOMAIN okrs :
        HalfLinked(c, a, b, o)
        => \A r \in {linkTeamOKRToCorporate(DB, o, c, 0, now)} :
               /\ r.result = "ok"
               /\ r.db.corps[c].keyResults[1].progress = 50
               /\ r.db.corps[c].progress = 50

\* the first of the two links has just been made
C25_Witness ==
    /\ last.op = "linkTeamOKRToCorporate"
    /\ last.result = "ok"
    /\ \E c \in DOMAIN corps, a \in DOMAIN okrs, b \in DOMAIN okrs, o \in DOMAIN okrs :
           HalfLinked(c, a, b, o)

\* key result k of corporate OKR c and the overall progress of c in D
RollupValues(D, c, k) == <<D.corps[c].keyResults[k].progress, D.corps[c].progress>>

\* C26: a second rollup of the same corporate key result, with nothing
\* changed in between, leaves the key result's progress and the corporate
\* OKR's progress as the first rollup left them.
C26_RollupIdempotent ==
    \A c \in DOMAIN corps :
        \A k \in 1..Len(corps[c].keyResults) :
            \A t1 \in now..MaxTime, t2 \in now..MaxTime :
                t1 <= t2
                => \A D1 \in {recalculateKRProgress(DB, k - 1, c, t1)} :
                       RollupValues(recalculateKRProgress(D1, k - 1, c, t2), c, k)
                           = RollupValues(D1, c, k)

\* a key result with linked team OKRs holds a value the rollup would change
C26_Witness ==
    \E c \in DOMAIN corps :
        \E k \in 1..Len(corps[c].keyResults) :
            /\ Linked(DB, c, k - 1) # {}
            /\ RollupValues(recalculateKRProgress(DB, k - 1, c, now), c, k)
                   # RollupValues(DB, c, k)

\* C27: for every integer actual value of the range, the progress that
\* updateCorporateOKRProgress stores for a key result, of any kind, start and
\* target, is an integer in 0..100, is the Metric Calculator of start, target
\* and actual, and is 100 when start = target; so is the stored progress of
\* every team key result with a numeric actual value.
C27_CalculatorFormula ==
    /\ \A c \in DOMAIN corps, actualValue \in CalcValues :
           \A i \in 1..Len(corps[c].keyResults) :
               \A kr \in {updateCorporateOKRProgress(DB, c, i - 1, actualValue, now).db.corps[c].keyResults[i]} :
                   /\ kr.progress \in 0..100
                   /\ kr.progress = MetricCalculator(kr.startValue, kr.targetValue, actualValue)
                   /\ kr.startValue = kr.targetValue => kr.progress = 100
    /\ \A o \in DOMAIN okrs :
           \A i \in 1..Len(okrs[o].keyResults) :
               \A kr \in {okrs[o].keyResults[i]} :
                   IsNum(kr.actualValue)
                   => /\ kr.progress \in 0..100
                      /\ kr.progress = MetricCalculator(kr.startValue, kr.targetValue, kr.actualValue)

\* C28: whatever a check-in request is answered, afterwards the stats of
\* every team OKR count as many check-ins as there are records for the OKR,
\* and an accepted check-in has added one snapshot to the progress history of
\* its OKR's stats.
C28_CounterAndSnapshot ==
    \A q \in CheckInRequests :
        \A r \in {CheckInOutcome(q)} :
            /\ \A o \in DOMAIN r.db.okrStats :
                   r.db.okrStats[o].totalCheckIns = Cardinality(RecordsOf(r.db.checkIns, o))
            /\ r.result = "ok"
               => r.db.okrStats[q.okr].progressHistory.len
                      = okrStats[q.okr].progressHistory.len + 1

\* a check-in was accepted and the next request on the OKR has just been
\* rejected: one record, one counted, one snapshot after the one of creation
C28_Witness ==
    /\ last.op = "createCheckIn"
    /\ last.result # "ok"
    /\ \E o \in DOMAIN okrs :
           /\ Cardinality(RecordsOf(checkIns, o)) = 1
           /\ okrStats[o].totalCheckIns = 1
           /\ okrStats[o].progressHistory.len = 2

OneEntryIfChanged(D, c) ==
    D.corps[c].progress # corps[c].progress
    => /\ D.corpStats[c].progressHistory.len = corpStats[c].progressHistory.len + 1
       /\ D.corpStats[c].progressHistory.last.value = D.corps[c].progress
       /\ D.corpStats[c].progressHistory.last.keyResultsProgress
              = ProgressOf(D.corps[c].keyResults)

\* C30: a rollup that changes the progress of a corporate OKR, run on its own
\* or by a link, appends exactly one entry to the progress history of the
\* corporate stats, and the entry holds the new progress of the corporate OKR
\* and of each of its key results.
C30_OneHistoryEntry ==
    /\ \A c \in DOMAIN corps :
           \A k \in 1..Len(corps[c].keyResults) :
               OneEntryIfChanged(recalculateKRProgress(DB, k - 1, c, now), c)
    /\ \A q \in LinkRequests :
           \A r \in {LinkOutcome(q)} : r.result = "ok" => OneEntryIfChanged(r.db, q.corp)

\* C31: while a corporate OKR is frozen, updateKeyResult, assignTeamsToKR,
\* updateCorporateOKRProgress and linkTeamOKRToCorporate that target it are
\* each rejected and leave the database as it was.
C31_FrozenCorporateRejected ==
    \A c \in DOMAIN corps :
        corps[c].isFrozen =>
            /\ \A k \in 0..MaxCorpKR, u \in KRUpdates :
                   \A r \in {updateKeyResult(DB, c, k, u)} :
                       r.result # "ok" /\ r.db = DB
            /\ \A k \in 0..MaxCorpKR, ts \in TeamLists :
                   \A r \in {assignTeamsToKR(DB, c, k, ts, now)} :
                       r.result # "ok" /\ r.db = DB
            /\ \A k \in 0..MaxCorpKR, o \in DOMAIN okrs :
                   \A r \in {linkTeamOKRToCorporate(DB, o, c, k, now)} :
                       r.result # "ok" /\ r.db = DB
            /\ \A k \in 0..MaxCorpKR, v \in ReportedValues :
                   \A r \in {updateCorporateOKRProgress(DB, c, k, v, now)} :
                       r.result # "ok" /\ r.db = DB

\* C32: every team OKR that holds a parent link (C, i) belongs to a team in
\* the team list of key result i of corporate OKR C, in every state reached
\* by assignTeamsToKR and linkTeamOKRToCorporate.
C32_LinkedTeamDelegated ==
    \A o \in DOMAIN okrs :
        okrs[o].parentOKR # Undef =>
            /\ okrs[o].parentOKR \in DOMAIN corps
            /\ okrs[o].parentKRIndex + 1 \in DOMAIN corps[okrs[o].parentOKR].keyResults
            /\ okrs[o].team \in
                   corps[okrs[o].parentOKR].keyResults[okrs[o].parentKRIndex + 1].teams

\* C33: linkTeamOKRToCorporate on a frozen corporate OKR is rejected and
\* leaves the database (the team OKR's parent link and freeze flag, its
\* stats, the corporate key result's progress) as it was; a link that
\* succeeds leaves the team OKR not frozen.
C33_LinkToFrozenRejected ==
    \A q \in LinkRequests :
        \A r \in {LinkOutcome(q)} :
            /\ corps[q.corp].isFrozen => r.result = "CorporateFrozen" /\ r.db = DB
            /\ r.result = "ok" => ~r.db.okrs[q.okr].isFrozen

\* a link into a frozen corporate OKR was refused, and a team OKR of a team
\* of its first key result is still not linked
C33_Witness ==
    /\ last.op = "linkTeamOKRToCorporate"
    /\ last.result = "CorporateFrozen"
    /\ \E c \in DOMAIN corps, o \in DOMAIN okrs :
          /\ corps[c].isFrozen
          /\ okrs[o].parentOKR = Undef
          /\ okrs[o].team \in corps[c].keyResults[1].teams

\* the counters of the stats of corporate OKR c count the team OKRs linked
\* to it, the frozen ones and the others
CountersExact(c) ==
    /\ corpStats[c].totalTeamOKRs = Cardinality(LinkedTo(DB, c))
    /\ corpStats[c].frozenTeamOKRs = Cardinality({o \in LinkedTo(DB, c) : okrs[o].isFrozen})
    /\ corpStats[c].activeTeamOKRs = Cardinality({o \in LinkedTo(DB, c) : ~okrs[o].isFrozen})

\* C35: after every completed linkTeamOKRToCorporate, corporate freeze and
\* team freeze, the counters of every corporate OKR's stats are exact.
C35_CountersExact ==
    (last.result = "ok" /\ last.op \in {"linkTeamOKRToCorporate", "setCorporateFrozen",
                                        "updateOKRFreezeStatus"})
        => \A c \in DOMAIN corpStats : CountersExact(c)

\* C36: updateCorporateOKRProgress on a key result that has linked team OKRs
\* leaves that key result with round(mean of the linked team OKRs' progress)
\* and the corporate OKR with round(mean of its key results' progress).
C36_ReportKeepsRollup ==
    \A c \in DOMAIN corps :
        \A k \in 1..Len(corps[c].keyResults), v \in ReportedValues :
            \A S \in {Linked(DB, c, k - 1)} :
                (S # {} /\ \A o \in S : IsNum(okrs[o].progress)) =>
                    \A r \in {updateCorporateOKRProgress(DB, c, k - 1, v, now)} :
                        /\ r.result = "ok"
                        /\ r.db.corps[c].keyResults[k].progress = RoundMeanProgress(r.db, S)
                        /\ r.db.corps[c].progress =
                               RoundMean(ProgressOf(r.db.corps[c].keyResults))

\* C34: team OKRs and their stats records correspond one to one: every team
\* OKR has its stats record and every stats record is that of a team OKR
\* that exists, also after a creation whose link step failed.
C34_StatsOneToOne == DOMAIN okrs = DOMAIN okrStats

\* no invocation still to run is one of the invocations that led to it
NoRetrigger ==
    \A i \in DOMAIN calls.pending :
        \A j \in DOMAIN calls.pending[i].chain :
            calls.pending[i].chain[j] # calls.pending[i].inv

\* the request was served and no invocation is left to run
CascadeDone == last.op # "init" /\ calls.pending = <<>>

====
